---- MODULE Spec2Model ----
(***************************************************************************)
(* Model of nvblox's CUDA stream wrappers (core/cuda_stream.cpp) and of    *)
(* the MultiMapper orchestrator and its MappingType helpers                *)
(* (mapper/multi_mapper.h).                                                *)
(*                                                                         *)
(* Four specifications share the module:                                   *)
(*   SpecStream  - lifecycle of the queue behind CudaStreamOwning and of   *)
(*                 a non-owning CudaStream that refers to it;              *)
(*   SpecEnum    - the pure MappingType predicates and toString;           *)
(*   SpecCalls   - the member functions of MultiMapper;                    *)
(*   SpecMapper  - the same, and a caller using the mapper handles.        *)
(***************************************************************************)
EXTENDS Integers, Sequences, FiniteSets, TLC

VARIABLES
  \* ---- cuda_stream.cpp ----
  queue,        \* the cudaStream_t stream_: "none", "created" or "destroyed"
  host,         \* position of the (single) host thread
  drained,      \* the destructor's synchronize() has returned
  backlog,      \* work items still pending when the destructor was entered
  pending,      \* work enqueued on the queue and not yet executed, in order
  completed,    \* work the device has executed
  enqueued,     \* every work item ever enqueued
  borrower,     \* the non-owning CudaStream: "none", "alive" or "dead"
  borrowSyncs,  \* lifecycle states in which the borrower synchronized
  \* ---- multi_mapper.h: MappingType helpers ----
  mt,           \* the MappingType value handed to the helper
  called,       \* the helpers applied to mt so far
  res,          \* what each of them returned
  fatal,        \* CHECK(false) was reached
  rendered,     \* <<value, name>> pairs toString has returned so far
  \* ---- multi_mapper.h: MultiMapper ----
  mm            \* the MultiMapper object (a record), or NoObject

vars       == <<queue, host, drained, backlog, pending, completed, enqueued,
                borrower, borrowSyncs, mt, called, res, fatal, rendered, mm>>

notStream  == <<mt, called, res, fatal, rendered, mm>>
notEnum    == <<queue, host, drained, backlog, pending, completed, enqueued,
                borrower, borrowSyncs, mm>>
notMapper  == <<queue, host, drained, backlog, pending, completed, enqueued,
                borrower, borrowSyncs, mt, called, res, fatal, rendered>>

NoObject == [exists |-> FALSE]
NoResults == [human |-> FALSE, dynamic |-> FALSE, both |-> FALSE,
              occupancy |-> FALSE, name |-> ""]

(***************************************************************************)
(* Bounds                                                                  *)
(***************************************************************************)
MaxWork == 3          \* work items enqueued over the life of a stream
MaxOutside == 3       \* MappingType values tried on each side of the enum
NumPixels == 2        \* pixels of a depth, color or mask image
MaxStores == 2        \* handles a caller stores through the mapper accessors
MaxLaunches == 4      \* operations of one MultiMapper that launch device work
NumVoxels == 1        \* voxels of the world a Mapper maps

(***************************************************************************)
(* core/cuda_stream.cpp                                                    *)
(***************************************************************************)

\* The lifecycle state of the queue, as the design names it.
StreamState ==
  CASE queue = "none"      -> "Uninitialized"
    [] queue = "destroyed" -> "Destroyed"
    [] queue = "created" /\ host \in {"dtor_sync", "dtor_release"} -> "Draining"
    [] OTHER               -> "Active"

\* CudaStreamOwning::CudaStreamOwning: the base keeps &stream_, then
\* cudaStreamCreateWithFlags creates the queue.
CudaStreamOwning_ctor ==
  /\ host = "idle"
  /\ queue = "none"
  /\ queue' = "created"
  /\ UNCHANGED notStream
  /\ UNCHANGED backlog
  /\ UNCHANGED <<host, drained, pending, completed, enqueued, borrower,
                 borrowSyncs>>

\* A collaborator launches asynchronous work on the queue and returns at once.
Enqueue ==
  /\ host = "idle"
  /\ queue = "created"
  /\ Cardinality(enqueued) < MaxWork
  /\ LET id == Cardinality(enqueued) + 1 IN
       /\ pending' = Append(pending, id)
       /\ enqueued' = enqueued \cup {id}
  /\ UNCHANGED notStream
  /\ UNCHANGED backlog
  /\ UNCHANGED <<queue, host, drained, completed, borrower, borrowSyncs>>

\* The device executes the oldest pending work item (stream order).
DeviceExecute ==
  /\ pending # <<>>
  /\ completed' = completed \cup {Head(pending)}
  /\ pending' = Tail(pending)
  /\ UNCHANGED notStream
  /\ UNCHANGED backlog
  /\ UNCHANGED <<queue, host, drained, enqueued, borrower, borrowSyncs>>

\* CudaStream::synchronize: cudaStreamSynchronize returns once every work
\* item enqueued before the call has been executed.
SynchronizeReturns == pending = <<>>

\* Faulty variant: the destructor does not wait in synchronize().
Dtor_SkipSynchronize ==
  /\ host = "idle"
  /\ queue = "created"
  /\ host' = "dtor_release"
  /\ UNCHANGED notStream
  /\ backlog' = Len(pending)
  /\ UNCHANGED <<queue, drained, pending, completed, enqueued, borrower,
                 borrowSyncs>>

\* Faulty variant: the destructor releases the queue before synchronize().
Dtor_ReleaseFirst ==
  /\ host = "idle"
  /\ queue = "created"
  /\ host' = "dtor_sync"
  /\ queue' = "destroyed"
  /\ UNCHANGED notStream
  /\ backlog' = Len(pending)
  /\ UNCHANGED <<drained, pending, completed, enqueued, borrower, borrowSyncs>>

\* CudaStreamOwning::~CudaStreamOwning, entry: this->synchronize() is called.
Dtor_Begin ==
  /\ host = "idle"
  /\ queue = "created"
  /\ host' = "dtor_sync"
  /\ UNCHANGED notStream
  /\ backlog' = Len(pending)
  /\ UNCHANGED <<queue, drained, pending, completed, enqueued, borrower,
                 borrowSyncs>>

\* ... this->synchronize() returns.
Dtor_Synchronized ==
  /\ host = "dtor_sync"
  /\ SynchronizeReturns
  /\ host' = "dtor_release"
  /\ drained' = TRUE
  /\ UNCHANGED notStream
  /\ UNCHANGED backlog
  /\ UNCHANGED <<queue, pending, completed, enqueued, borrower, borrowSyncs>>

\* ... cudaStreamDestroy(stream_), and the destructor returns.
Dtor_Destroy ==
  /\ host = "dtor_release"
  /\ queue' = "destroyed"
  /\ host' = "idle"
  /\ UNCHANGED notStream
  /\ UNCHANGED backlog
  /\ UNCHANGED <<drained, pending, completed, enqueued, borrower, borrowSyncs>>

\* A non-owning CudaStream is constructed from a reference to the queue of a
\* live CudaStreamOwning; only the pointer is stored.
Borrow_ctor ==
  /\ host = "idle"
  /\ queue = "created"
  /\ borrower = "none"
  /\ borrower' = "alive"
  /\ UNCHANGED notStream
  /\ UNCHANGED backlog
  /\ UNCHANGED <<queue, host, drained, pending, completed, enqueued,
                 borrowSyncs>>

\* CudaStream::synchronize called through the non-owning stream.  The code
\* does not look at the state of the queue before it dereferences stream_ptr_.
Borrow_SynchronizeCall ==
  /\ host = "idle"
  /\ borrower = "alive"
  /\ host' = "borrow_sync"
  /\ borrowSyncs' = borrowSyncs \cup {StreamState}
  /\ UNCHANGED notStream
  /\ UNCHANGED backlog
  /\ UNCHANGED <<queue, drained, pending, completed, enqueued, borrower>>

\* Faulty variant: synchronize() through the borrower releases the queue.
Borrow_SynchronizeReturn_Releases ==
  /\ host = "borrow_sync"
  /\ queue = "created"
  /\ SynchronizeReturns
  /\ host' = "idle"
  /\ queue' = "destroyed"
  /\ UNCHANGED notStream
  /\ UNCHANGED backlog
  /\ UNCHANGED <<drained, pending, completed, enqueued, borrower, borrowSyncs>>

\* cudaStreamSynchronize returns.  On a live queue it returns success once the
\* queue is empty.  On a destroyed queue the handle dangles: the call may
\* return success, or return an error, on which checkCudaErrors ends the
\* process.
Borrow_SynchronizeReturn ==
  /\ host = "borrow_sync"
  /\ \/ /\ queue = "created"
        /\ SynchronizeReturns
        /\ host' = "idle"
     \/ /\ queue = "destroyed"
        /\ host' \in {"idle", "aborted"}
  /\ UNCHANGED notStream
  /\ UNCHANGED backlog
  /\ UNCHANGED <<queue, drained, pending, completed, enqueued, borrower,
                 borrowSyncs>>

\* CudaStream::~CudaStream of the non-owning stream: nothing is released.
Borrow_dtor ==
  /\ host = "idle"
  /\ borrower = "alive"
  /\ borrower' = "dead"
  /\ UNCHANGED notStream
  /\ UNCHANGED backlog
  /\ UNCHANGED <<queue, host, drained, pending, completed, enqueued,
                 borrowSyncs>>

\* State before any object is constructed.  The MappingType helpers and
\* the MultiMapper are not exercised under SpecStream.
InitStream ==
  /\ queue = "none"
  /\ host = "idle"
  /\ drained = FALSE
  /\ backlog = 0
  /\ pending = <<>>
  /\ completed = {}
  /\ enqueued = {}
  /\ borrower = "none"
  /\ borrowSyncs = {}
  /\ mt = 0
  /\ called = {}
  /\ res = NoResults
  /\ fatal = FALSE
  /\ rendered = {}
  /\ mm = NoObject

NextStream ==
  \/ CudaStreamOwning_ctor
  \/ Enqueue
  \/ DeviceExecute
  \/ Dtor_Begin
  \/ Dtor_Synchronized
  \/ Dtor_Destroy
  \/ Borrow_ctor
  \/ Borrow_SynchronizeCall
  \/ Borrow_SynchronizeReturn
  \/ Borrow_dtor

SpecStream == InitStream /\ [][NextStream]_vars

(***************************************************************************)
(* mapper/multi_mapper.h: MappingType and its helpers                      *)
(***************************************************************************)

\* enum class MappingType: the enumerators take the values 0 to 4 in order.
kStaticTsdf == 0
kStaticOccupancy == 1
kDynamic == 2
kHumanWithStaticTsdf == 3
kHumanWithStaticOccupancy == 4

MappingType == {kStaticTsdf, kStaticOccupancy, kDynamic, kHumanWithStaticTsdf,
                kHumanWithStaticOccupancy}

\* The values a MappingType object can hold: the enumerators, and the values
\* of the underlying type outside them (a static_cast, a version mismatch).
MappingTypeValues ==
  (kStaticTsdf - MaxOutside) .. (kHumanWithStaticOccupancy + MaxOutside)

isHumanMapping(mapping_type) ==
  IF mapping_type = kHumanWithStaticTsdf \/
     mapping_type = kHumanWithStaticOccupancy
  THEN TRUE
  ELSE FALSE

\* Faulty variant: the test names the wrong enumerator.
isDynamicMapping_WrongEnumerator(mapping_type) ==
  IF mapping_type = kStaticTsdf THEN TRUE ELSE FALSE

isDynamicMapping(mapping_type) ==
  IF mapping_type = kDynamic THEN TRUE ELSE FALSE

\* Faulty variant: the dynamic case is forgotten.
isUsingBothMappers_HumanOnly(mapping_type) ==
  IF isHumanMapping(mapping_type) THEN TRUE ELSE FALSE

isUsingBothMappers(mapping_type) ==
  IF isHumanMapping(mapping_type) \/ isDynamicMapping(mapping_type)
  THEN TRUE
  ELSE FALSE

isStaticOccupancy(mapping_type) ==
  IF mapping_type = kStaticOccupancy \/
     mapping_type = kHumanWithStaticOccupancy
  THEN TRUE
  ELSE FALSE

\* Faulty variant: a case returns the literal of the case above it.
toString_CopiedCase(mapping_type) ==
  CASE mapping_type = kStaticTsdf -> [fatal |-> FALSE, name |-> "kStaticTsdf"]
    [] mapping_type = kStaticOccupancy ->
         [fatal |-> FALSE, name |-> "kStaticOccupancy"]
    [] mapping_type = kDynamic -> [fatal |-> FALSE, name |-> "kDynamic"]
    [] mapping_type = kHumanWithStaticTsdf ->
         [fatal |-> FALSE, name |-> "kHumanWithStaticTsdf"]
    [] mapping_type = kHumanWithStaticOccupancy ->
         [fatal |-> FALSE, name |-> "kHumanWithStaticTsdf"]
    [] OTHER -> [fatal |-> TRUE, name |-> ""]

\* Faulty variant: the default branch returns a name instead of CHECK(false).
toString_DefaultReturns(mapping_type) ==
  CASE mapping_type = kStaticTsdf -> [fatal |-> FALSE, name |-> "kStaticTsdf"]
    [] mapping_type = kStaticOccupancy ->
         [fatal |-> FALSE, name |-> "kStaticOccupancy"]
    [] mapping_type = kDynamic -> [fatal |-> FALSE, name |-> "kDynamic"]
    [] mapping_type = kHumanWithStaticTsdf ->
         [fatal |-> FALSE, name |-> "kHumanWithStaticTsdf"]
    [] mapping_type = kHumanWithStaticOccupancy ->
         [fatal |-> FALSE, name |-> "kHumanWithStaticOccupancy"]
    [] OTHER -> [fatal |-> FALSE, name |-> "unknown"]

\* toString<MappingType>: the switch.  A value outside the enumerators takes
\* the default branch, CHECK(false), which ends the process: nothing is
\* returned.
toString(mapping_type) ==
  CASE mapping_type = kStaticTsdf -> [fatal |-> FALSE, name |-> "kStaticTsdf"]
    [] mapping_type = kStaticOccupancy ->
         [fatal |-> FALSE, name |-> "kStaticOccupancy"]
    [] mapping_type = kDynamic -> [fatal |-> FALSE, name |-> "kDynamic"]
    [] mapping_type = kHumanWithStaticTsdf ->
         [fatal |-> FALSE, name |-> "kHumanWithStaticTsdf"]
    [] mapping_type = kHumanWithStaticOccupancy ->
         [fatal |-> FALSE, name |-> "kHumanWithStaticOccupancy"]
    [] OTHER -> [fatal |-> TRUE, name |-> ""]

\* The caller takes another MappingType value to work on.
TakeValue ==
  /\ ~fatal
  /\ \E m \in MappingTypeValues :
       /\ m # mt
       /\ mt' = m
  /\ called' = {}
  /\ res' = NoResults
  /\ UNCHANGED <<fatal, rendered>>
  /\ UNCHANGED notEnum

Call_isHumanMapping ==
  /\ ~fatal
  /\ called' = called \cup {"isHumanMapping"}
  /\ res' = [res EXCEPT !.human = isHumanMapping(mt)]
  /\ UNCHANGED <<mt, fatal, rendered>>
  /\ UNCHANGED notEnum

Call_isDynamicMapping ==
  /\ ~fatal
  /\ called' = called \cup {"isDynamicMapping"}
  /\ res' = [res EXCEPT !.dynamic = isDynamicMapping(mt)]
  /\ UNCHANGED <<mt, fatal, rendered>>
  /\ UNCHANGED notEnum

Call_isUsingBothMappers ==
  /\ ~fatal
  /\ called' = called \cup {"isUsingBothMappers"}
  /\ res' = [res EXCEPT !.both = isUsingBothMappers(mt)]
  /\ UNCHANGED <<mt, fatal, rendered>>
  /\ UNCHANGED notEnum

Call_isStaticOccupancy ==
  /\ ~fatal
  /\ called' = called \cup {"isStaticOccupancy"}
  /\ res' = [res EXCEPT !.occupancy = isStaticOccupancy(mt)]
  /\ UNCHANGED <<mt, fatal, rendered>>
  /\ UNCHANGED notEnum

\* toString(mt): either a name comes back, or the process ends in CHECK.
Call_toString ==
  /\ ~fatal
  /\ called' = called \cup {"toString"}
  /\ LET r == toString(mt) IN
       IF r.fatal
       THEN /\ fatal' = TRUE
            /\ UNCHANGED <<res, rendered>>
       ELSE /\ res' = [res EXCEPT !.name = r.name]
            /\ rendered' = rendered \cup {<<mt, r.name>>}
            /\ UNCHANGED fatal
  /\ UNCHANGED mt
  /\ UNCHANGED notEnum

InitEnum ==
  /\ mt \in MappingTypeValues
  /\ called = {}
  /\ res = NoResults
  /\ fatal = FALSE
  /\ rendered = {}
  /\ queue = "none"
  /\ host = "idle"
  /\ drained = FALSE
  /\ backlog = 0
  /\ pending = <<>>
  /\ completed = {}
  /\ enqueued = {}
  /\ borrower = "none"
  /\ borrowSyncs = {}
  /\ mm = NoObject

NextEnum ==
  \/ TakeValue
  \/ Call_isHumanMapping
  \/ Call_isDynamicMapping
  \/ Call_isUsingBothMappers
  \/ Call_isStaticOccupancy
  \/ Call_toString

SpecEnum == InitEnum /\ [][NextEnum]_vars

(***************************************************************************)
(* Claims about MappingType                                                *)
(***************************************************************************)

\* C6: for each of the five MappingType values every predicate returns what
\* the mode table says: isHumanMapping exactly for the two kHuman* variants,
\* isDynamicMapping exactly for kDynamic, isStaticOccupancy exactly for
\* kStaticOccupancy and kHumanWithStaticOccupancy, isUsingBothMappers exactly
\* for the three variants with a second mapper, and the value returned by
\* isUsingBothMappers is the disjunction of the values returned by
\* isHumanMapping and isDynamicMapping.
C6_PredicatesMatchTable ==
  mt \in MappingType =>
    /\ "isHumanMapping" \in called =>
         (res.human <=> mt \in {kHumanWithStaticTsdf, kHumanWithStaticOccupancy})
    /\ "isDynamicMapping" \in called => (res.dynamic <=> mt = kDynamic)
    /\ "isStaticOccupancy" \in called =>
         (res.occupancy <=> mt \in {kStaticOccupancy, kHumanWithStaticOccupancy})
    /\ "isUsingBothMappers" \in called =>
         (res.both <=> mt \in {kDynamic, kHumanWithStaticTsdf,
                               kHumanWithStaticOccupancy})
    /\ {"isHumanMapping", "isDynamicMapping", "isUsingBothMappers"}
          \subseteq called => (res.both <=> (res.human \/ res.dynamic))

\* C6 witness: all four predicates have been applied to kDynamic, the variant
\* that uses both mappers without being a human variant.
C6_Witness ==
  /\ mt = kDynamic
  /\ {"isHumanMapping", "isDynamicMapping", "isUsingBothMappers",
      "isStaticOccupancy"} \subseteq called
  /\ res.both /\ ~res.human

\* C7: the names toString has returned form a one-to-one map from the
\* enumerators: each name is non-empty, one value never gets two names (the
\* name is the same on every call), and two values never share a name.
C7_NamesAreBijective ==
  /\ \A p \in rendered : p[1] \in MappingType /\ p[2] # ""
  /\ \A p, q \in rendered : (p[1] = q[1]) <=> (p[2] = q[2])
  /\ \A m \in MappingType :
       ("toString" \in called /\ mt = m) => <<m, res.name>> \in rendered

\* C7 witness: all five enumerators have been rendered, to five names.
C7_Witness ==
  /\ {p[1] : p \in rendered} = MappingType
  /\ Cardinality({p[2] : p \in rendered}) = 5

\* C8: toString applied to a value outside the five enumerators reaches the
\* fatal CHECK and returns no name, and toString applied to an enumerator
\* never reaches it.
C8_FatalExactlyOutsideEnum ==
  /\ ("toString" \in called /\ mt \notin MappingType) =>
        (fatal /\ res.name = "" /\ \A p \in rendered : p[1] # mt)
  /\ ("toString" \in called /\ mt \in MappingType) => ~fatal
  /\ fatal => ("toString" \in called /\ mt \notin MappingType)

\* C8 witness: after names were rendered for enumerators, toString was
\* applied to a value outside the enumeration and the process ended.
C8_Witness ==
  /\ fatal
  /\ mt = kHumanWithStaticOccupancy + 1
  /\ rendered # {}

(***************************************************************************)
(* mapper/multi_mapper.h: MultiMapper                                      *)
(*                                                                         *)
(* The header declares the operations; the inline setter, the accessors    *)
(* and the defaulted destructor are modelled from the header, the other    *)
(* operations from the design document.  Images are functions over         *)
(* Pixels.  The world is one-dimensional: a pixel with depth d sees a      *)
(* surface in voxel d.  Mappers live in a heap and the two members are     *)
(* handles into it, so that two handles can share one Mapper.              *)
(*                                                                         *)
(* SpecCalls has the member functions of MultiMapper, called in any order. *)
(* SpecMapper adds what a caller can do with the std::shared_ptr<Mapper>&  *)
(* the non-const accessors return: store another handle through the        *)
(* reference, keeping a copy of the old one or not, and drop a copy.       *)
(***************************************************************************)

kDefaultConnectedMaskComponentSizeThreshold == 2000

Pixels == 1 .. NumPixels
Voxels == 1 .. NumVoxels
Invalid == 0                   \* value of a pixel that was cut out of a frame
DepthImages == [Pixels -> Voxels]
ColorImages == [Pixels -> {1}]
MaskValues == {0, 2}           \* MonoImage: 0 = non-masked, >0 = masked
MonoImages == [Pixels -> MaskValues]
Shifts == {0, 1}               \* T_CM_CD: depth pixel p is seen at mask pixel p + shift
ThresholdValues == {1, kDefaultConnectedMaskComponentSizeThreshold}

\* The Mapper objects a handle can name: A and B are the ones the constructor
\* makes (B only when the type uses both mappers), ext is one the caller made
\* and used itself, and holds the only handle to until it stores it.  A
\* std::shared_ptr<Mapper> is the name of one of them, or null; two handles
\* with the same name share ONE Mapper.
MapperIds == {"A", "B", "ext"}
NullHandle == "null"

\* A Mapper nothing was integrated into.
NewMapper ==
  [alive |-> TRUE, touched |-> FALSE, surface |-> {}, freespace |-> {},
   esdf |-> {}]

\* A Mapper that was not made, or that was destroyed with its last handle.
NoMapper ==
  [alive |-> FALSE, touched |-> FALSE, surface |-> {}, freespace |-> {},
   esdf |-> {}]

\* std::shared_ptr<Mapper>: the heap after a member gave up the handle old
\* and the members name the Mappers in named.  The Mapper old named is
\* destroyed when no member names it any more and the caller holds no handle
\* to it (kept), be it a Mapper of the constructor or one the caller handed
\* over.  A Mapper that lives on with no member naming it is one the caller
\* holds a handle to.
Release(heap, old, named, kept) ==
  [id \in MapperIds |->
     IF id = old /\ id \notin named /\ ~kept
     THEN NoMapper
     ELSE heap[id]]

\* The heap after the Mapper that handle h names became mapper.
Put(heap, h, mapper) == [heap EXCEPT ![h] = mapper]

\* Mapper::integrateDepth: the valid pixels add surface voxels.
Mapper_integrateDepth(mapper, frame) ==
  [mapper EXCEPT !.touched = TRUE,
                 !.surface = @ \cup {frame[p] : p \in {q \in Pixels : frame[q] # Invalid}}]

\* Mapper::integrateColor: colors the surface; the set of sites is unchanged.
Mapper_integrateColor(mapper, frame) ==
  [mapper EXCEPT !.touched = TRUE]

\* Mapper::updateEsdf: the sites of its distance field become the surface
\* voxels, less the excluded ones.
Mapper_updateEsdf(mapper, excluded) ==
  [mapper EXCEPT !.esdf = mapper.surface \ excluded]

\* The Mapper the caller made: it has seen the first voxel in every pixel.
UsedMapper == Mapper_integrateDepth(NewMapper, [p \in Pixels |-> 1])

\* Faulty variant: only the mask value 1 counts as masked.
MaskedRegion_OnlyOne(mask, shift) ==
  {p \in Pixels : (p + shift) \in Pixels /\ mask[p + shift] = 1}

\* The mask reprojected into the depth camera: the depth pixels that land on
\* a mask pixel with a value > 0.  Pixels landing outside the mask image are
\* unmasked.
MaskedRegion(mask, shift) ==
  {p \in Pixels : (p + shift) \in Pixels /\ mask[p + shift] > 0}

\* ImageMasker: the sub-frame that keeps the pixels of region and the one
\* that keeps the others.
SplitMasked(frame, region) ==
  [p \in Pixels |-> IF p \in region THEN frame[p] ELSE Invalid]

SplitUnmasked(frame, region) ==
  [p \in Pixels |-> IF p \in region THEN Invalid ELSE frame[p]]

\* DynamicsDetection: the pixels whose surface voxel the freespace layer marks
\* free, kept only when they are at least min_size pixels.
DynamicRegion(frame, freespace, min_size) ==
  LET hit == {p \in Pixels : frame[p] \in freespace} IN
    IF Cardinality(hit) >= min_size THEN hit ELSE {}

\* What the last call was, what it was given, and the frames it handed to the
\* unmasked and to the masked mapper (<<>>: none).
Last(op, args, toUnmasked, toMasked) ==
  [op |-> op, args |-> args, toUnmasked |-> toUnmasked, toMasked |-> toMasked]

\* MultiMapper::MultiMapper: the unmasked mapper always, the masked mapper
\* when the type uses both.  cuda_stream_ holds a CudaStreamOwning, made by
\* the default argument std::make_shared<CudaStreamOwning>() or made by the
\* caller for this call; either way its queue is created by now.
MultiMapper_ctor(m) ==
  /\ ~mm.exists
  /\ host = "idle"
  /\ queue = "none"
  /\ mm' = [exists |-> TRUE, crashed |-> FALSE, mapping_type |-> m,
            params |-> kDefaultConnectedMaskComponentSizeThreshold,
            unmasked |-> "A",
            masked |-> IF isUsingBothMappers(m) THEN "B" ELSE NullHandle,
            heap |-> [id \in MapperIds |->
                        IF id = "ext" THEN UsedMapper
                        ELSE IF id = "A" \/ isUsingBothMappers(m) THEN NewMapper
                        ELSE NoMapper],
            stores |-> 0,
            last |-> Last("ctor", <<>>, <<>>, <<>>)]
  /\ queue' = "created"
  /\ UNCHANGED <<host, drained, backlog, pending, completed, enqueued,
                 borrower, borrowSyncs, mt, called, res, fatal, rendered>>

Construct == \E m \in MappingType : MultiMapper_ctor(m)

Usable == mm.exists /\ ~mm.crashed /\ host = "idle"

\* ~MultiMapper() = default: the object ends and its members are released,
\* cuda_stream_ first.  last_handle: cuda_stream_ is the last handle to the
\* stream, as it is for the default argument; then ~CudaStreamOwning is
\* entered and calls this->synchronize(), and the destructor goes on in
\* Dtor_Synchronized and Dtor_Destroy.  Otherwise the caller, who made the
\* stream, still holds a handle, and the stream stays as it is.  Nothing
\* before this step depends on who else holds the stream.  A Mapper lives on
\* while the caller holds a handle to it.
MultiMapper_dtor(last_handle) ==
  /\ Usable
  /\ mm' = NoObject
  /\ IF last_handle
     THEN /\ host' = "dtor_sync"
          /\ backlog' = Len(pending)
     ELSE UNCHANGED <<host, backlog>>
  /\ UNCHANGED <<queue, drained, pending, completed, enqueued, borrower,
                 borrowSyncs, mt, called, res, fatal, rendered>>

Destruct == \E last_handle \in BOOLEAN : MultiMapper_dtor(last_handle)

\* The caller drops its handle to the stream it shared with a MultiMapper
\* that is gone: ~CudaStreamOwning is entered.
CallerReleasesStream == ~mm.exists /\ Dtor_Begin

\* The device work of a call: an operation that integrates or updates
\* launches its kernels on cuda_stream_ and returns at once; a call that is
\* refused or that ends the process launches nothing.
LaunchWork ==
  /\ Cardinality(enqueued) < MaxLaunches
  /\ IF mm'.last.op \in {"refused", "crashed"}
     THEN UNCHANGED <<pending, enqueued>>
     ELSE LET id == Cardinality(enqueued) + 1 IN
            /\ pending' = Append(pending, id)
            /\ enqueued' = enqueued \cup {id}
  /\ UNCHANGED <<queue, host, drained, backlog, completed, borrower,
                 borrowSyncs, mt, called, res, fatal, rendered>>

\* A null mapper handle is dereferenced: the process ends.
Crash(op) ==
  [mm EXCEPT !.crashed = TRUE, !.last = Last("crashed", <<op>>, <<>>, <<>>)]

\* An overload is called under a mapping type it is not meant for: the call
\* reports an error and integrates nothing.
Refuse(op) == [mm EXCEPT !.last = Last("refused", <<op>>, <<>>, <<>>)]

\* setMultiMapperParams: params_ = multi_mapper_params.
setMultiMapperParams(t) ==
  /\ Usable
  /\ mm' = [mm EXCEPT !.params = t]
  /\ UNCHANGED notMapper

SetMultiMapperParams == \E t \in ThresholdValues : setMultiMapperParams(t)

\* setMapperParams(unmasked_mapper_params, masked_mapper_params): the first
\* struct goes to the unmasked mapper; the optional second one goes to the
\* masked mapper when there is one and is dropped silently otherwise.  The
\* parameters of a Mapper are not part of its model here, so all that shows
\* is the use of the unmasked handle.
setMapperParams(with_masked) ==
  /\ Usable
  /\ IF mm.unmasked = NullHandle
     THEN mm' = Crash("setMapperParams")
     ELSE mm' = mm
  /\ UNCHANGED notMapper

SetMapperParams == \E with_masked \in BOOLEAN : setMapperParams(with_masked)

\* The states the unmasked mapper's freespace layer can be left in by an
\* integration: any, where the layer is kept (kDynamic); none elsewhere.
FreespaceUpdates ==
  IF isDynamicMapping(mm.mapping_type) THEN SUBSET Voxels ELSE {{}}

\* integrateDepth(depth_frame, T_L_CD, depth_camera, update_time_ms): the
\* whole frame goes to the unmasked mapper.  For kDynamic the unmasked mapper
\* also updates its freespace layer (to a state its integrator decides), and
\* the pixels found dynamic from it go to the masked mapper.  freespace is that
\* new freespace state; it is {} where no freespace layer is updated.
integrateDepth(frame, freespace) ==
  /\ Usable
  /\ IF isHumanMapping(mm.mapping_type)
     THEN mm' = Refuse("integrateDepth")
     ELSE IF mm.unmasked = NullHandle \/
             (isDynamicMapping(mm.mapping_type) /\ mm.masked = NullHandle)
     THEN mm' = Crash("integrateDepth")
     ELSE IF isDynamicMapping(mm.mapping_type)
     THEN LET region == DynamicRegion(frame, freespace, mm.params)
              h1 == Put(mm.heap, mm.unmasked,
                        [Mapper_integrateDepth(mm.heap[mm.unmasked], frame)
                           EXCEPT !.freespace = freespace])
              h2 == Put(h1, mm.masked,
                        Mapper_integrateDepth(h1[mm.masked],
                                              SplitMasked(frame, region)))
          IN mm' = [mm EXCEPT
                      !.heap = h2,
                      !.last = Last("integrateDepth", <<frame>>, frame,
                                    SplitMasked(frame, region))]
     ELSE mm' = [mm EXCEPT
                   !.heap = Put(@, mm.unmasked,
                                Mapper_integrateDepth(@[mm.unmasked], frame)),
                   !.last = Last("integrateDepth", <<frame>>, frame, <<>>)]
  /\ LaunchWork

IntegrateDepth ==
  Usable /\ \E frame \in DepthImages : \E freespace \in FreespaceUpdates :
              integrateDepth(frame, freespace)

\* integrateDepth(depth_frame, mask, T_L_CD, T_CM_CD, depth_camera,
\* mask_camera): the frame is split on the reprojected mask; the unmasked
\* part goes to the unmasked mapper, the masked part to the masked mapper.
integrateDepthMasked(frame, mask, shift) ==
  /\ Usable
  /\ IF ~isHumanMapping(mm.mapping_type)
     THEN mm' = Refuse("integrateDepthMasked")
     ELSE IF mm.unmasked = NullHandle \/ mm.masked = NullHandle
     THEN mm' = Crash("integrateDepthMasked")
     ELSE LET region == MaskedRegion(mask, shift)
              h1 == Put(mm.heap, mm.unmasked,
                        Mapper_integrateDepth(mm.heap[mm.unmasked],
                                              SplitUnmasked(frame, region)))
              h2 == Put(h1, mm.masked,
                        Mapper_integrateDepth(h1[mm.masked],
                                              SplitMasked(frame, region)))
          IN mm' = [mm EXCEPT
                      !.heap = h2,
                      !.last = Last("integrateDepthMasked", <<frame, mask, shift>>,
                                    SplitUnmasked(frame, region),
                                    SplitMasked(frame, region))]
  /\ LaunchWork

IntegrateDepthMasked ==
  \E frame \in DepthImages : \E mask \in MonoImages : \E shift \in Shifts :
    integrateDepthMasked(frame, mask, shift)

\* integrateColor(color_frame, T_L_C, camera): the whole frame goes to the
\* unmasked mapper.
integrateColor(frame) ==
  /\ Usable
  /\ IF isHumanMapping(mm.mapping_type)
     THEN mm' = Refuse("integrateColor")
     ELSE IF mm.unmasked = NullHandle
     THEN mm' = Crash("integrateColor")
     ELSE mm' = [mm EXCEPT
                   !.heap = Put(@, mm.unmasked,
                                Mapper_integrateColor(@[mm.unmasked], frame)),
                   !.last = Last("integrateColor", <<frame>>, frame, <<>>)]
  /\ LaunchWork

IntegrateColor == \E frame \in ColorImages : integrateColor(frame)

\* integrateColor(color_frame, mask, T_L_C, camera): the mask is given in the
\* color camera.
integrateColorMasked(frame, mask) ==
  /\ Usable
  /\ IF ~isHumanMapping(mm.mapping_type)
     THEN mm' = Refuse("integrateColorMasked")
     ELSE IF mm.unmasked = NullHandle \/ mm.masked = NullHandle
     THEN mm' = Crash("integrateColorMasked")
     ELSE LET region == MaskedRegion(mask, 0)
              h1 == Put(mm.heap, mm.unmasked,
                        Mapper_integrateColor(mm.heap[mm.unmasked],
                                              SplitUnmasked(frame, region)))
              h2 == Put(h1, mm.masked,
                        Mapper_integrateColor(h1[mm.masked],
                                              SplitMasked(frame, region)))
          IN mm' = [mm EXCEPT
                      !.heap = h2,
                      !.last = Last("integrateColorMasked", <<frame, mask, 0>>,
                                    SplitUnmasked(frame, region),
                                    SplitMasked(frame, region))]
  /\ LaunchWork

IntegrateColorMasked ==
  \E frame \in ColorImages : \E mask \in MonoImages :
    integrateColorMasked(frame, mask)

\* Faulty variant: nothing is excluded.
EsdfExcluded_None(mapping_type, mapper) == {}

\* The voxels updateEsdf keeps out of the unmasked mapper's sites: for
\* kDynamic, the voxels its freespace layer marks free now.
EsdfExcluded(mapping_type, mapper) ==
  IF isDynamicMapping(mapping_type) THEN mapper.freespace ELSE {}

\* updateEsdfOfMapper(mapper): the esdf update of the Mapper the handle
\* names.
updateEsdfOfMapper(heap, h, excluded) ==
  Put(heap, h, Mapper_updateEsdf(heap[h], excluded))

\* updateEsdf: every active mapper updates its distance field, the unmasked
\* one with the exclusion.  The order of the two updates is not fixed; it
\* shows only when both handles name one Mapper.  The call is recorded with
\* the sites the unmasked mapper had before it.
updateEsdf(order) ==
  /\ Usable
  /\ IF mm.unmasked = NullHandle \/
        (isUsingBothMappers(mm.mapping_type) /\ mm.masked = NullHandle)
     THEN mm' = Crash("updateEsdf")
     ELSE LET excluded == EsdfExcluded(mm.mapping_type, mm.heap[mm.unmasked])
              heap ==
                IF ~isUsingBothMappers(mm.mapping_type)
                THEN updateEsdfOfMapper(mm.heap, mm.unmasked, excluded)
                ELSE IF order = "unmasked first"
                THEN updateEsdfOfMapper(
                       updateEsdfOfMapper(mm.heap, mm.unmasked, excluded),
                       mm.masked, {})
                ELSE updateEsdfOfMapper(
                       updateEsdfOfMapper(mm.heap, mm.masked, {}),
                       mm.unmasked, excluded)
          IN mm' = [mm EXCEPT
                      !.heap = heap,
                      !.last = Last("updateEsdf",
                                    <<mm.heap[mm.unmasked].esdf>>, <<>>, <<>>)]
  /\ LaunchWork

UpdateEsdf ==
  \E order \in {"unmasked first", "masked first"} : updateEsdf(order)

\* updateMesh: a mapper with a tsdf layer produces the mesh of its surface;
\* occupancy mappers are skipped.  The mesh is returned, not kept.
updateMesh ==
  /\ Usable
  /\ IF mm.unmasked = NullHandle
     THEN mm' = Crash("updateMesh")
     ELSE mm' = [mm EXCEPT
                   !.last = Last("updateMesh",
                                 <<IF isStaticOccupancy(mm.mapping_type)
                                   THEN {} ELSE mm.heap[mm.unmasked].surface>>,
                                 <<>>, <<>>)]
  /\ LaunchWork

\* The two handle members.
Members == {"unmasked_mapper_", "masked_mapper_"}

\* The handle held by a member of the MultiMapper m.
Member(m, member) ==
  IF member = "unmasked_mapper_" THEN m.unmasked ELSE m.masked

\* Faulty variant: the accessor returns the other member.
unmasked_mapper_ReturnsMasked == "masked_mapper_"

\* std::shared_ptr<Mapper>& unmasked_mapper() { return unmasked_mapper_; }
\* The member the returned reference refers to.
unmasked_mapper == "unmasked_mapper_"

\* std::shared_ptr<Mapper>& masked_mapper() { return masked_mapper_; }
masked_mapper == "masked_mapper_"

\* A call of unmasked_mapper(): the caller gets the reference; nothing of
\* the MultiMapper changes.
UnmaskedMapperAccess ==
  /\ Usable
  /\ unmasked_mapper \in Members
  /\ UNCHANGED vars

\* A call of masked_mapper().
MaskedMapperAccess ==
  /\ Usable
  /\ masked_mapper \in Members
  /\ UNCHANGED vars

\* const Mapper& unmasked_mapper() const { return *unmasked_mapper_.get(); }
\* and masked_mapper() const: the Mapper the handle names is handed out for
\* reading.  With a null handle the dereference is undefined: the call may
\* return a reference to nothing, or the process ends.
constMapperAccess(member) ==
  /\ Usable
  /\ IF Member(mm, member) = NullHandle
     THEN mm' \in {mm, Crash(member)}
     ELSE mm' = mm
  /\ UNCHANGED notMapper

ConstMapperAccess == \E member \in Members : constMapperAccess(member)

\* getLastDepthFrameUnmasked() ... getLastDynamicPointcloud(): references to
\* what the preceding integration produced; nothing is changed.
getLast ==
  /\ Usable
  /\ UNCHANGED vars

\* The name a caller calls an accessor by, and the reference that call gives.
Accessor(name) ==
  IF name = "unmasked_mapper" THEN unmasked_mapper ELSE masked_mapper

\* mm.unmasked_mapper() = v;  (or masked_mapper(); v null: .reset()): the
\* caller stores the handle v through the reference the accessor gave.  The
\* member then holds v.  kept: the caller holds a handle to the Mapper the
\* member named before: a copy it took (auto copy = mm.unmasked_mapper();),
\* or its own handle to a Mapper it had stored (auto ext = ...; as opposed
\* to storing the temporary std::make_shared<Mapper>(...)).
CallerStoresHandle(name, v, kept) ==
  /\ Usable
  /\ mm.stores < MaxStores
  /\ v # Member(mm, Accessor(name))
  /\ LET old == Member(mm, Accessor(name))
         stored == IF Accessor(name) = "unmasked_mapper_"
                   THEN [mm EXCEPT !.unmasked = v]
                   ELSE [mm EXCEPT !.masked = v]
     IN mm' = [stored EXCEPT
                 !.heap = Release(@, old, {stored.unmasked, stored.masked},
                                  kept),
                 !.stores = @ + 1,
                 !.last = Last("store", <<name, v>>, <<>>, <<>>)]
  /\ UNCHANGED notMapper

\* The handles a caller has to store: null, and a handle to any live Mapper:
\* its own, a copy it kept, or the handle it reads from the other accessor.
\* Storing the other member's handle makes both members name ONE Mapper.
CallerHandles ==
  {NullHandle} \cup {id \in MapperIds : mm.heap[id].alive}

StoreHandle ==
  Usable /\ \E name \in {"unmasked_mapper", "masked_mapper"} :
              \E v \in CallerHandles : \E kept \in BOOLEAN :
                CallerStoresHandle(name, v, kept)

\* The caller lets go of its handle to a Mapper no member names: the Mapper
\* is destroyed.
CallerDropsHandle(id) ==
  /\ Usable
  /\ mm.heap[id].alive
  /\ id \notin {mm.unmasked, mm.masked}
  /\ mm' = [mm EXCEPT !.heap = Put(@, id, NoMapper)]
  /\ UNCHANGED notMapper

DropHandle == \E id \in MapperIds : CallerDropsHandle(id)

InitMapper ==
  /\ mm = NoObject
  /\ queue = "none"
  /\ host = "idle"
  /\ drained = FALSE
  /\ backlog = 0
  /\ pending = <<>>
  /\ completed = {}
  /\ enqueued = {}
  /\ borrower = "none"
  /\ borrowSyncs = {}
  /\ mt = 0
  /\ called = {}
  /\ res = NoResults
  /\ fatal = FALSE
  /\ rendered = {}

\* The member functions of MultiMapper, called in any order.
NextCalls ==
  \/ Construct
  \/ Destruct
  \/ Dtor_Synchronized
  \/ Dtor_Destroy
  \/ CallerReleasesStream
  \/ DeviceExecute
  \/ SetMultiMapperParams
  \/ SetMapperParams
  \/ IntegrateDepth
  \/ IntegrateDepthMasked
  \/ IntegrateColor
  \/ IntegrateColorMasked
  \/ UpdateEsdf
  \/ updateMesh
  \/ UnmaskedMapperAccess
  \/ MaskedMapperAccess
  \/ ConstMapperAccess
  \/ getLast

SpecCalls == InitMapper /\ [][NextCalls]_vars

\* The member functions, and the caller's use of the handle references.
NextMapper ==
  \/ Construct
  \/ Destruct
  \/ Dtor_Synchronized
  \/ Dtor_Destroy
  \/ CallerReleasesStream
  \/ DeviceExecute
  \/ SetMultiMapperParams
  \/ SetMapperParams
  \/ IntegrateDepth
  \/ IntegrateDepthMasked
  \/ IntegrateColor
  \/ IntegrateColorMasked
  \/ UpdateEsdf
  \/ updateMesh
  \/ UnmaskedMapperAccess
  \/ MaskedMapperAccess
  \/ ConstMapperAccess
  \/ getLast
  \/ StoreHandle
  \/ DropHandle

SpecMapper == InitMapper /\ [][NextMapper]_vars

(***************************************************************************)
(* Claims about MultiMapper                                                *)
(*                                                                         *)
(* C4, C5 and C9 speak of sequences of member-function calls and are       *)
(* settled on SpecCalls.  C3 speaks of the accessors too, whose references *)
(* a caller can store through, and is settled on SpecMapper.               *)
(***************************************************************************)

\* C3 as stated: after construction and after every public operation the
\* mapping type is the one given at construction, the unmasked mapper is
\* present, and the masked mapper is present exactly when
\* isUsingBothMappers(mapping type).
C3_EngineConfigurationFixed ==
  [][ mm'.exists =>
        /\ mm'.unmasked # NullHandle
        /\ mm'.masked # NullHandle <=> isUsingBothMappers(mm'.mapping_type)
        /\ mm.exists => mm'.mapping_type = mm.mapping_type ]_vars

\* C3 amended: the mapping type never changes.  Construction leaves the
\* unmasked mapper present and the masked mapper present exactly when
\* isUsingBothMappers(mapping type), and this stays so for as long as the
\* caller has stored nothing through the reference a non-const accessor
\* returned.  No member function, the accessors included, changes either
\* handle; a handle changes only in a caller's store through such a
\* reference, and then only the member that accessor names.
C3_ConfigurationChangesOnlyByStore ==
  [][ mm'.exists =>
        /\ (mm.exists => mm'.mapping_type = mm.mapping_type)
        /\ (mm'.stores = 0 =>
              /\ mm'.unmasked # NullHandle
              /\ mm'.masked # NullHandle <=>
                   isUsingBothMappers(mm'.mapping_type))
        /\ ((mm.exists /\ mm'.stores = mm.stores) =>
              /\ mm'.unmasked = mm.unmasked
              /\ mm'.masked = mm.masked)
        /\ ((mm.exists /\ mm'.stores # mm.stores) =>
              /\ mm'.last.op = "store"
              /\ mm'.last.args[1] = "unmasked_mapper" =>
                   mm'.masked = mm.masked
              /\ mm'.last.args[1] = "masked_mapper" =>
                   mm'.unmasked = mm.unmasked) ]_vars

\* C3 witness: under kDynamic a caller exchanged the two handles with two
\* stores, keeping a copy of the first, and a depth frame was integrated
\* afterwards.
C3_Witness ==
  /\ mm.exists
  /\ mm.mapping_type = kDynamic
  /\ mm.stores = 2
  /\ mm.unmasked = "B" /\ mm.masked = "A"
  /\ mm.last.op = "integrateDepth"

\* C4: under kDynamic, every updateEsdf() call leaves none of the voxels that
\* the unmasked mapper's freespace layer marks free when the call is made
\* among the unmasked mapper's distance-field sites, whatever integration
\* has put into those voxels and whatever the sites were before.
C4_NoSiteInFreespace ==
  [][ (/\ mm.exists /\ mm'.exists
       /\ mm'.mapping_type = kDynamic
       /\ mm'.last.op = "updateEsdf"
       /\ enqueued' # enqueued) =>
        mm'.heap[mm'.unmasked].esdf \cap mm.heap[mm.unmasked].freespace = {}
    ]_vars

\* C4 witness: updateEsdf() ran under kDynamic when a voxel that holds a
\* surface, and that was a site after an earlier updateEsdf(), had since been
\* marked free.
C4_Witness ==
  /\ mm.exists
  /\ mm.mapping_type = kDynamic
  /\ mm.last.op = "updateEsdf"
  /\ mm.heap[mm.unmasked].surface \cap mm.heap[mm.unmasked].freespace # {}
  /\ mm.last.args[1] \cap mm.heap[mm.unmasked].freespace # {}

C9_SinglePathLeavesMaskedUntouched ==
  [][ (mm'.exists /\ mm'.mapping_type \in {kStaticTsdf, kStaticOccupancy}) =>
        /\ mm'.masked = NullHandle
        /\ \A id \in MapperIds \ {mm'.unmasked} :
             mm'.heap[id] = IF id = "ext" THEN UsedMapper ELSE NoMapper
        /\ ~(/\ mm'.last.op \in {"refused", "crashed"}
             /\ mm'.last.args[1] \in {"integrateDepth", "integrateColor"})
        /\ (/\ mm.exists
            /\ mm'.last.op \in {"integrateDepth", "integrateColor"}
            /\ enqueued' # enqueued) =>
             /\ mm'.last.toUnmasked = mm'.last.args[1]
             /\ mm'.last.toMasked = <<>>
             /\ mm'.heap[mm'.unmasked].touched
             /\ mm'.last.op = "integrateDepth" =>
                  mm'.heap[mm'.unmasked].surface =
                    mm.heap[mm.unmasked].surface \cup
                      {mm'.last.args[1][p] : p \in Pixels}
    ]_vars

\* C9 witness: under kStaticTsdf a depth frame and then a color frame were
\* integrated; there is no masked mapper.
C9_Witness ==
  /\ mm.exists
  /\ mm.mapping_type = kStaticTsdf
  /\ mm.last.op = "integrateColor"
  /\ mm.heap[mm.unmasked].surface = Voxels
  /\ mm.masked = NullHandle
  /\ ~mm.heap["B"].alive

(***************************************************************************)
(* Claims about the stream                                                 *)
(***************************************************************************)

\* C1: the lifecycle of the owned queue only ever advances
\* Uninitialized -> Active -> Draining -> Destroyed, one stage at a time, and
\* the queue is released (cudaStreamDestroy) only from Draining and only after
\* the destructor's synchronize() has returned.
C1_DrainBeforeRelease ==
  [][ /\ StreamState = "Uninitialized" =>
           StreamState' \in {"Uninitialized", "Active"}
      /\ StreamState = "Active" => StreamState' \in {"Active", "Draining"}
      /\ StreamState = "Draining" => StreamState' \in {"Draining", "Destroyed"}
      /\ StreamState = "Destroyed" => StreamState' = "Destroyed"
      /\ (StreamState # "Destroyed" /\ StreamState' = "Destroyed") =>
           (StreamState = "Draining" /\ drained) ]_vars

\* C1 witness: a destruction that had work to drain has finished.
C1_Witness ==
  /\ StreamState = "Destroyed"
  /\ drained
  /\ backlog >= 1

\* C2: whenever the queue is Destroyed, no enqueued work item is pending and
\* none was dropped: every one of them has been executed.
C2_DestructionImpliesCompletion ==
  StreamState = "Destroyed" => (pending = <<>> /\ completed = enqueued)

\* C2 witness: the stream was destroyed while every work item enqueued on it
\* was still pending, and all of them have been executed.
C2_Witness ==
  /\ StreamState = "Destroyed"
  /\ Cardinality(enqueued) = MaxWork
  /\ backlog = MaxWork
  /\ completed = enqueued

\* C10 as stated: no operation of the non-owning stream changes the lifecycle
\* state of the queue, and every synchronize() through the non-owning stream
\* finds the queue Active.
C10_PureBorrowOnlyWhileActive ==
  [][ /\ (borrower' # borrower \/ host = "borrow_sync" \/ host' = "borrow_sync")
           => (StreamState' = StreamState /\ queue' = queue)
      /\ borrowSyncs' \subseteq {"Active"} ]_vars

\* C10 amended: no operation of the non-owning stream (its construction, its
\* synchronize() call and return, its destruction) changes the lifecycle
\* state of the queue, whatever state the queue is in.
C10_BorrowNeverTransitions ==
  [][ (borrower' # borrower \/ host = "borrow_sync" \/ host' = "borrow_sync")
        => (StreamState' = StreamState /\ queue' = queue) ]_vars

\* C10 witness: the non-owning stream was constructed, synchronized on the
\* Active queue and was destroyed, and the queue is still Active.
C10_Witness ==
  /\ borrower = "dead"
  /\ "Active" \in borrowSyncs
  /\ StreamState = "Active"
  /\ enqueued # {}

====
